---- MODULE Spec2Model ----
(***************************************************************************)
(* link-gen.rs: a one-shot program that reads a Markdown file, appends a   *)
(* " [chain](#anchor-)" link to every ATX heading line and writes the      *)
(* result to output.md.                                                    *)
(*                                                                         *)
(* A Rust char is modelled as a one-element TLA+ string ("a", "#", "\n"),  *)
(* a str / String as a sequence of chars.  Characters outside ASCII are    *)
(* named by their code point ("U+0130").                                   *)
(***************************************************************************)
EXTENDS Integers, Sequences, FiniteSets, TLC

VARIABLES
    pc,               \* position in main / process_markdown_headings
    inputFile,        \* text stored at input_path
    outputFile,       \* text stored at output_path, NoFile when absent
    content,          \* main: content
    rest,             \* the part of content.lines() not yet consumed by map
    mapped,           \* the Vec<String> being collected
    hashes,           \* closure local: capture 1 of the last heading line
    heading_text,     \* closure local: capture 2 of the last heading line
    anchor,           \* closure local: generate_anchor(heading_text)
    modified_content, \* main: modified_content
    stdout,           \* what println! has written
    result,           \* how main ended: "running", "Ok", "Err", "Panic"
    nReads,           \* number of fs::read_to_string calls made
    nWrites           \* number of fs::write calls made

vars == <<pc, inputFile, outputFile, content, rest, mapped, hashes,
          heading_text, anchor, modified_content, stdout, result,
          nReads, nWrites>>

-----------------------------------------------------------------------------
(* Bounds of the model. *)

\* longest input document of Spec, in chars
MaxDocLen == 5
\* longest '#' run at the start of a line of SpecHeading
MaxHashes == 7
\* longest remainder after the '#' run of a line of SpecHeading
MaxTail == 3
\* longest heading text of SpecAnchor
MaxText == 4

-----------------------------------------------------------------------------
(* Characters. *)

LowerSeq == <<"a","b","c","d","e","f","g","h","i","j","k","l","m",
              "n","o","p","q","r","s","t","u","v","w","x","y","z">>

UpperSeq == <<"A","B","C","D","E","F","G","H","I","J","K","L","M",
              "N","O","P","Q","R","S","T","U","V","W","X","Y","Z">>

Digits == {"0","1","2","3","4","5","6","7","8","9"}

Range(s) == {s[i] : i \in 1..Len(s)}

\* char::is_alphanumeric: Alphabetic or Numeric.  U+0307 (combining dot
\* above) is a mark, not alphanumeric.
is_alphanumeric(c) == c \in Range(LowerSeq) \cup Range(UpperSeq) \cup Digits

\* char::is_whitespace and the regex class \s: the White_Space property.
WhiteSpace == {" ", "\t", "\n", "\r", "U+000B", "U+000C", "U+0085", "U+00A0"}

is_whitespace(c) == c \in WhiteSpace

\* str::to_lowercase of one char.  U+0130 (capital I with dot above)
\* lowercases to the two chars "i", U+0307.
char_to_lowercase(c) ==
    IF \E i \in 1..Len(UpperSeq) : UpperSeq[i] = c
    THEN <<LowerSeq[CHOOSE i \in 1..Len(UpperSeq) : UpperSeq[i] = c]>>
    ELSE IF c = "U+0130" THEN <<"i", "U+0307">>
    ELSE <<c>>

-----------------------------------------------------------------------------
(* String helpers of the standard library. *)

RECURSIVE Flatten(_)
Flatten(ss) == IF ss = <<>> THEN <<>> ELSE Head(ss) \o Flatten(Tail(ss))

\* index of the first occurrence of c in s, 0 when there is none
Find(s, c) ==
    IF \E i \in 1..Len(s) : s[i] = c
    THEN CHOOSE i \in 1..Len(s) : s[i] = c /\ \A j \in 1..(i-1) : s[j] # c
    ELSE 0

\* str::to_lowercase
to_lowercase(s) == Flatten([i \in 1..Len(s) |-> char_to_lowercase(s[i])])

\* str::split(c): the segments between occurrences of c, empty ones included
RECURSIVE split(_, _)
split(s, c) ==
    LET i == Find(s, c)
    IN  IF i = 0 THEN <<s>>
        ELSE <<SubSeq(s, 1, i - 1)>> \o split(SubSeq(s, i + 1, Len(s)), c)

\* str::split_inclusive(c): segments end with their terminator; no segment
\* for the empty string or after a final terminator
RECURSIVE split_inclusive(_, _)
split_inclusive(s, c) ==
    LET i == Find(s, c)
    IN  IF s = <<>> THEN <<>>
        ELSE IF i = 0 THEN <<s>>
        ELSE <<SubSeq(s, 1, i)>> \o split_inclusive(SubSeq(s, i + 1, Len(s)), c)

\* [String]::join(sep)
RECURSIVE join(_, _)
join(v, sep) ==
    IF v = <<>> THEN <<>>
    ELSE IF Len(v) = 1 THEN v[1]
    ELSE v[1] \o sep \o join(Tail(v), sep)

\* faulty variant: only the "\n" is stripped
LinesMapKeepCR(line) ==
    IF line # <<>> /\ line[Len(line)] = "\n"
    THEN SubSeq(line, 1, Len(line) - 1)
    ELSE line

\* core::str LinesMap: strip one "\n", then one "\r" before it
LinesMap(line) ==
    IF line # <<>> /\ line[Len(line)] = "\n"
    THEN LET l == SubSeq(line, 1, Len(line) - 1)
         IN  IF l # <<>> /\ l[Len(l)] = "\r"
             THEN SubSeq(l, 1, Len(l) - 1)
             ELSE l
    ELSE line

\* faulty variant: content.split('\n'), which yields a last empty line after a
\* final "\n"
lines_split(s) == split(s, "\n")

\* str::lines
lines(s) ==
    LET segs == split_inclusive(s, "\n")
    IN  [i \in 1..Len(segs) |-> LinesMap(segs[i])]

-----------------------------------------------------------------------------
(* The heading regex  ^(#{1,6})\s+(.+?)$  (no flags). *)

\* upper limit of the counted repetition #{1,6}
RegexMaxHashes == 6

NoCaptures == [matched |-> FALSE, g1 |-> <<>>, g2 |-> <<>>]

\* '.' matches any char except "\n"
DotMatches(s) == \A i \in 1..Len(s) : s[i] # "\n"

\* Regex::captures(line).  A match is a pair (k, j): k chars for #{1,6}, j
\* chars for \s+, the rest (non-empty, all matched by '.') for .+? up to $,
\* which without the m flag is the end of the haystack.  Both counted
\* repetitions are greedy, so the match taken has the largest k and, for
\* it, the largest j; the lazy .+? then has to run to the end.
match_heading(line, maxHashes) ==
    LET n == Len(line)
        ok(k, j) ==
            /\ k + j < n
            /\ \A i \in 1..k : line[i] = "#"
            /\ \A i \in (k + 1)..(k + j) : is_whitespace(line[i])
            /\ DotMatches(SubSeq(line, k + j + 1, n))
        ks == {k \in 1..maxHashes : k <= n /\ \E j \in 1..n : ok(k, j)}
    IN  IF ks = {} THEN NoCaptures
        ELSE LET k == CHOOSE x \in ks : \A y \in ks : y <= x
                 js == {j \in 1..n : ok(k, j)}
                 j == CHOOSE x \in js : \A y \in js : y <= x
             IN  [matched |-> TRUE,
                  g1 |-> SubSeq(line, 1, k),
                  g2 |-> SubSeq(line, k + j + 1, n)]

\* str::trim_end
RECURSIVE trim_end(_)
trim_end(s) ==
    IF s # <<>> /\ is_whitespace(s[Len(s)])
    THEN trim_end(SubSeq(s, 1, Len(s) - 1))
    ELSE s

\* faulty variant: the '#' run is not limited, as for ^(#+)\s+(.+?)$
captures_any_level(line) == match_heading(line, Len(line))

\* faulty variant: the text is trimmed at its end, as for ^(#{1,6})\s+(.+?)\s*$
captures_trimmed(line) ==
    LET c == match_heading(line, RegexMaxHashes)
    IN  IF c.matched /\ trim_end(c.g2) # <<>>
        THEN [c EXCEPT !.g2 = trim_end(c.g2)]
        ELSE c

captures(line) == match_heading(line, RegexMaxHashes)

-----------------------------------------------------------------------------
(* generate_anchor *)

NUL == "U+0000"

\* faulty variant: ':' and '.' become hyphens like any other punctuation
anchor_char_colon_hyphen(c) ==
    IF is_alphanumeric(c) THEN c ELSE "-"

\* the closure of .map() in generate_anchor
anchor_char(c) ==
    IF is_alphanumeric(c) THEN c
    ELSE IF is_whitespace(c) THEN "-"
    ELSE IF c = ":" \/ c = "." THEN NUL
    ELSE "-"

generate_anchor(text) ==
    LET lowered == to_lowercase(text)
        chars == [i \in 1..Len(lowered) |-> anchor_char(lowered[i])]
        kept == SelectSeq(chars, LAMBDA c : c # NUL)
        parts == SelectSeq(split(kept, "-"), LAMBDA s : s # <<>>)
    IN  join(parts, <<"-">>)

-----------------------------------------------------------------------------
(* process_markdown_headings *)

\* faulty variant: the link target is the anchor without the trailing hyphen
format_heading_no_hyphen(h, t, a) ==
    h \o <<" ">> \o t \o <<" ", "[", "c", "h", "a", "i", "n", "]", "(", "#">>
      \o a \o <<")">>

\* format!("{} {} [chain](#{}-)", hashes, heading_text, anchor)
format_heading(h, t, a) ==
    h \o <<" ">> \o t \o <<" ", "[", "c", "h", "a", "i", "n", "]", "(", "#">>
      \o a \o <<"-", ")">>

\* the closure of .map() in process_markdown_headings
map_line(line) ==
    LET c == captures(line)
    IN  IF c.matched
        THEN format_heading(c.g1, c.g2, generate_anchor(c.g2))
        ELSE line

process_markdown_headings(s) ==
    LET ls == lines(s)
    IN  join([i \in 1..Len(ls) |-> map_line(ls[i])], <<"\n">>)

-----------------------------------------------------------------------------
(* println! *)

\* char::escape_debug as used by <str as Debug>::fmt
escape_debug(c) ==
    CASE c = "\t" -> <<"\\", "t">>
      [] c = "\r" -> <<"\\", "r">>
      [] c = "\n" -> <<"\\", "n">>
      [] c = "\"" -> <<"\\", "\"">>
      [] c = "\\" -> <<"\\", "\\">>
      [] c = "U+000B" -> <<"\\", "u", "{", "b", "}">>
      [] c = "U+000C" -> <<"\\", "u", "{", "c", "}">>
      [] c = "U+0085" -> <<"\\", "u", "{", "8", "5", "}">>
      [] c = "U+00A0" -> <<"\\", "u", "{", "a", "0", "}">>
      [] c = "U+0307" -> <<"\\", "u", "{", "3", "0", "7", "}">>
      [] OTHER -> <<c>>

\* format!("{:?}", s)
fmt_debug(s) ==
    <<"\"">> \o Flatten([i \in 1..Len(s) |-> escape_debug(s[i])]) \o <<"\"">>

-----------------------------------------------------------------------------
(* Input documents. *)

\* all strings over alphabet of length at most n
Strs(alphabet, n) == UNION {[1..k -> alphabet] : k \in 0..n}

HashRun(n) == [i \in 1..n |-> "#"]

\* the scenarios of the documentation
HelloWorld == <<"#"," ","H","e","l","l","o"," ","W","o","r","l","d">>

RustOwnership ==
    <<"#","#"," ","R","u","s","t",":"," ","O","w","n","e","r","s","h","i","p",
      " ","M","o","d","e","l",".">>

FooBar == <<"#"," ","F","o","o","!","!","B","a","r">>

NotAHeading == <<"N","o","t"," ","a"," ","h","e","a","d","i","n","g">>

TooManyHashes ==
    <<"#","#","#","#","#","#","#"," ","T","o","o"," ","m","a","n","y"," ",
      "h","a","s","h","e","s">>

DottedI == <<"#"," ","U+0130","U+00A0","x">>

Scenarios ==
    {HelloWorld, RustOwnership, FooBar, NotAHeading, TooManyHashes, DottedI,
     HelloWorld \o <<"\r", "\n">> \o NotAHeading \o <<"\n">>}

\* documents of a few short lines with every line-ending style
DocAlphabet == {"#", " ", "a", "\n", "\r"}

Docs == Strs(DocAlphabet, MaxDocLen) \cup Scenarios

\* one line: a run of '#' and a short remainder
TailAlphabet == {"#", " ", "\t", "a"}

HeadingDocs ==
    {HashRun(n) \o t : n \in 0..MaxHashes, t \in Strs(TailAlphabet, MaxTail)}
        \cup Scenarios

\* one heading line with every short text
TextAlphabet == {"a", "B", "1", " ", ":", ".", "!"}

AnchorDocs ==
    {<<"#", "#", " ">> \o t : t \in Strs(TextAlphabet, MaxText)} \cup Scenarios

-----------------------------------------------------------------------------
(* main *)

NoFile == [exists |-> FALSE, data |-> <<>>]

File(data) == [exists |-> TRUE, data |-> data]

OldOutput == File(<<"o", "l", "d">>)

InitWith(docs) ==
    /\ pc = "read"
    /\ inputFile \in docs
    /\ outputFile \in {NoFile, OldOutput}
    /\ content = <<>>
    /\ rest = <<>>
    /\ mapped = <<>>
    /\ hashes = <<>>
    /\ heading_text = <<>>
    /\ anchor = <<>>
    /\ modified_content = <<>>
    /\ stdout = <<>>
    /\ result = "running"
    /\ nReads = 0
    /\ nWrites = 0

Init == InitWith(Docs)

InitHeading == InitWith(HeadingDocs)

InitAnchor == InitWith(AnchorDocs)

\* line 12: fs::read_to_string(input_path)?
ReadInput ==
    /\ pc = "read"
    /\ nReads' = nReads + 1
    /\ \/ /\ content' = inputFile
          /\ pc' = "call"
          /\ UNCHANGED result
       \/ /\ result' = "Err"
          /\ pc' = "exit"
          /\ UNCHANGED content
    /\ UNCHANGED <<inputFile, outputFile, rest, mapped, hashes, heading_text,
                   anchor, modified_content, stdout, nWrites>>

\* lines 28-31: the call of process_markdown_headings, content.lines()
CallProcess ==
    /\ pc = "call"
    /\ rest' = lines(content)
    /\ mapped' = <<>>
    /\ pc' = "map"
    /\ UNCHANGED <<inputFile, outputFile, content, hashes, heading_text,
                   anchor, modified_content, stdout, result, nReads, nWrites>>

\* lines 33-41: the closure on a line the regex matches
MapHeading ==
    /\ pc = "map"
    /\ rest # <<>>
    /\ captures(Head(rest)).matched
    /\ hashes' = captures(Head(rest)).g1
    /\ heading_text' = captures(Head(rest)).g2
    /\ anchor' = generate_anchor(heading_text')
    /\ mapped' = Append(mapped, format_heading(hashes', heading_text', anchor'))
    /\ rest' = Tail(rest)
    /\ UNCHANGED <<pc, inputFile, outputFile, content, modified_content,
                   stdout, result, nReads, nWrites>>

\* faulty variant: the line is pushed as line.trim_end()
MapPlainTrimmed ==
    /\ pc = "map"
    /\ rest # <<>>
    /\ ~captures(Head(rest)).matched
    /\ mapped' = Append(mapped, trim_end(Head(rest)))
    /\ rest' = Tail(rest)
    /\ UNCHANGED <<pc, inputFile, outputFile, content, hashes, heading_text,
                   anchor, modified_content, stdout, result, nReads, nWrites>>

\* lines 42-44: the closure on any other line
MapPlain ==
    /\ pc = "map"
    /\ rest # <<>>
    /\ ~captures(Head(rest)).matched
    /\ mapped' = Append(mapped, Head(rest))
    /\ rest' = Tail(rest)
    /\ UNCHANGED <<pc, inputFile, outputFile, content, hashes, heading_text,
                   anchor, modified_content, stdout, result, nReads, nWrites>>

\* lines 46-47 and 13: collect, join("\n"), return to main
JoinLines ==
    /\ pc = "map"
    /\ rest = <<>>
    /\ modified_content' = join(mapped, <<"\n">>)
    /\ pc' = "print"
    /\ UNCHANGED <<inputFile, outputFile, content, rest, mapped, hashes,
                   heading_text, anchor, stdout, result, nReads, nWrites>>

\* line 15: println!("{:?}", ..), which panics when stdout cannot be written
PrintDebug ==
    /\ pc = "print"
    /\ \/ /\ stdout' = Append(stdout, fmt_debug(modified_content) \o <<"\n">>)
          /\ pc' = "write"
          /\ UNCHANGED result
       \/ /\ result' = "Panic"
          /\ pc' = "exit"
          /\ UNCHANGED stdout
    /\ UNCHANGED <<inputFile, outputFile, content, rest, mapped, hashes,
                   heading_text, anchor, modified_content, nReads, nWrites>>

\* what a failed fs::write may leave at output_path: the file as it was
\* (open failed), or created and truncated with part of the data written
WriteFailures(old, data) ==
    {old} \cup {File(SubSeq(data, 1, n)) : n \in 0..(Len(data) - 1)}

\* faulty variant: the error of fs::write is dropped (let _ = fs::write(..))
WriteOutputIgnoreErr ==
    /\ pc = "write"
    /\ nWrites' = nWrites + 1
    /\ outputFile' \in {File(modified_content)}
                         \cup WriteFailures(outputFile, modified_content)
    /\ pc' = "report"
    /\ UNCHANGED <<inputFile, content, rest, mapped, hashes, heading_text,
                   anchor, modified_content, stdout, nReads, result>>

\* lines 16-19: fs::write(output_path, modified_content)?
WriteOutput ==
    /\ pc = "write"
    /\ nWrites' = nWrites + 1
    /\ \/ /\ outputFile' = File(modified_content)
          /\ pc' = "report"
          /\ UNCHANGED result
       \/ /\ outputFile' \in WriteFailures(outputFile, modified_content)
          /\ result' = "Err"
          /\ pc' = "exit"
    /\ UNCHANGED <<inputFile, content, rest, mapped, hashes, heading_text,
                   anchor, modified_content, stdout, nReads>>

ReportText ==
    <<"P","r","o","c","e","s","s","i","n","g"," ","c","o","m","p","l","e","t",
      "e","!"," ","O","u","t","p","u","t"," ","w","r","i","t","t","e","n"," ",
      "t","o"," ","o","u","t","p","u","t",".","m","d","\n">>

\* lines 20-22: println!("Processing complete! ..."), Ok(())
Report ==
    /\ pc = "report"
    /\ pc' = "exit"
    /\ \/ /\ stdout' = Append(stdout, ReportText)
          /\ result' = "Ok"
       \/ /\ result' = "Panic"
          /\ UNCHANGED stdout
    /\ UNCHANGED <<inputFile, outputFile, content, rest, mapped, hashes,
                   heading_text, anchor, modified_content, nReads, nWrites>>

Next ==
    \/ ReadInput
    \/ CallProcess
    \/ MapHeading
    \/ MapPlain
    \/ JoinLines
    \/ PrintDebug
    \/ WriteOutput
    \/ Report

\* documents of short lines
Spec == Init /\ [][Next]_vars

\* single lines around the heading pattern
SpecHeading == InitHeading /\ [][Next]_vars

\* heading texts for the anchor
SpecAnchor == InitAnchor /\ [][Next]_vars

-----------------------------------------------------------------------------
(* Vocabulary of the properties. *)

\* process_markdown_headings has returned and main is still running
Returned == pc \in {"print", "write", "report"}

InputLines == lines(content)

\* the output cut at every "\n"
OutputLines == split(modified_content, "\n")

Matched(line) == captures(line).matched

EndsWith(s, c) == s # <<>> /\ s[Len(s)] = c

Contains(s, c) == \E i \in 1..Len(s) : s[i] = c

ChainOpen == <<" ", "[", "c", "h", "a", "i", "n", "]", "(", "#">>

ChainClose == <<"-", ")">>

LeadingHashes(line) ==
    IF \E i \in 1..Len(line) : line[i] # "#"
    THEN (CHOOSE i \in 1..Len(line) :
              line[i] # "#" /\ \A j \in 1..(i - 1) : line[j] = "#") - 1
    ELSE Len(line)

-----------------------------------------------------------------------------
\* C1: every input line the heading regex does not match, the empty line
\* included, is pushed unchanged and stands unchanged at the same position
\* of the output.
C1_PlainLinesVerbatim ==
    /\ pc = "map" =>
         \A i \in 1..Len(mapped) :
             ~Matched(InputLines[i]) => mapped[i] = InputLines[i]
    /\ Returned =>
         \A i \in 1..Len(InputLines) :
             ~Matched(InputLines[i]) =>
                 i <= Len(OutputLines) /\ OutputLines[i] = InputLines[i]

\* a heading line followed by a plain line that ends in whitespace
C1_Witness ==
    /\ Returned
    /\ Len(InputLines) >= 2
    /\ Matched(InputLines[1])
    /\ ~Matched(InputLines[2])
    /\ EndsWith(InputLines[2], " ")
    /\ OutputLines[2] = InputLines[2]

-----------------------------------------------------------------------------
-----------------------------------------------------------------------------
-----------------------------------------------------------------------------
\* every "\r" of s is directly followed by "\n" (never by another "\r" or
\* by the end of s)
OnlyCRLF(s) ==
    \A i \in 1..Len(s) : s[i] = "\r" => (i < Len(s) /\ s[i + 1] = "\n")

JoinedByOneNewline ==
    /\ modified_content = join(mapped, <<"\n">>)
    /\ mapped # <<>> => OutputLines = mapped

-----------------------------------------------------------------------------
\* C10: a terminating "\n" of the input is not reproduced: for content c
\* that ends neither in "\n" nor in "\r", c and c + "\n" give the same
\* output; the output ends with "\n" only when the last input line is
\* empty and another line precedes it.
C10_FinalNewlineDropped ==
    Returned =>
        LET n == Len(content)
            c == SubSeq(content, 1, n - 1)
        IN  /\ (~EndsWith(content, "\n") /\ ~EndsWith(content, "\r")) =>
                  process_markdown_headings(content \o <<"\n">>)
                      = modified_content
            /\ (EndsWith(content, "\n") /\ ~EndsWith(c, "\n")
                    /\ ~EndsWith(c, "\r")) =>
                  modified_content = process_markdown_headings(c)
            /\ EndsWith(modified_content, "\n") =>
                  /\ Len(InputLines) >= 2
                  /\ InputLines[Len(InputLines)] = <<>>
                  /\ n >= 2
                  /\ \/ SubSeq(content, n - 1, n) = <<"\n", "\n">>
                     \/ (n >= 3 /\ SubSeq(content, n - 2, n)
                                      = <<"\n", "\r", "\n">>)

\* a heading line terminated by "\n" has been transformed
C10_Witness ==
    /\ Returned
    /\ EndsWith(content, "\n")
    /\ Len(InputLines) = 1
    /\ Matched(InputLines[1])
    /\ EndsWith(modified_content, ")")

-----------------------------------------------------------------------------
\* the heading pattern as documented: 1 to 6 '#', then at least one
\* whitespace char, then a remainder that holds a non-whitespace char
DocumentedHeading(line) ==
    LET k == LeadingHashes(line)
    IN  /\ k \in 1..6
        /\ k < Len(line)
        /\ is_whitespace(line[k + 1])
        /\ \E i \in (k + 2)..Len(line) : ~is_whitespace(line[i])

\* C2: a line gets a suffix if and only if it is 1 to 6 '#', at least one
\* whitespace char and a remainder with at least one non-whitespace char;
\* '#' followed by two spaces gets none.
C2_SuffixIffDocumentedHeading ==
    pc = "map" =>
        \A i \in 1..Len(mapped) :
            (mapped[i] # InputLines[i]) <=> DocumentedHeading(InputLines[i])

-----------------------------------------------------------------------------
\* the steps of the slug, told from the positions of the lowercased text:
\* the alphanumeric chars in their order, one hyphen between two of them
\* exactly when a char other than ':' and '.' stands between them
SlugKept(low) == {i \in 1..Len(low) : is_alphanumeric(low[i])}

SlugBreak(low, i) ==
    /\ \E p \in SlugKept(low) : p < i
    /\ LET prev == CHOOSE p \in SlugKept(low) :
                       p < i /\ \A q \in SlugKept(low) : q < i => q <= p
       IN  \E x \in (prev + 1)..(i - 1) : low[x] \notin {":", "."}

SlugA(text) ==
    LET low == to_lowercase(text)
    IN  Flatten([i \in 1..Len(low) |->
            IF i \in SlugKept(low)
            THEN (IF SlugBreak(low, i) THEN <<"-", low[i]>> ELSE <<low[i]>>)
            ELSE <<>>])

WellFormedSlug(a) ==
    /\ a # <<>> => (a[1] # "-" /\ a[Len(a)] # "-")
    /\ \A i \in 1..(Len(a) - 1) : ~(a[i] = "-" /\ a[i + 1] = "-")
    /\ \A i \in 1..Len(a) : a[i] = "-" \/ is_alphanumeric(a[i])

-----------------------------------------------------------------------------
\* the heading line processed last: the last pushed line that differs from
\* its input line
LastHeading ==
    CHOOSE i \in 1..Len(mapped) :
        /\ mapped[i] # InputLines[i]
        /\ \A j \in (i + 1)..Len(mapped) : mapped[j] = InputLines[j]

HeadingSeen == pc = "map" /\ \E i \in 1..Len(mapped) : mapped[i] # InputLines[i]

\* C9 as stated: the heading text has no leading and no trailing
\* whitespace.
C9_TextTrimmed ==
    HeadingSeen =>
        /\ heading_text # <<>>
        /\ ~is_whitespace(heading_text[1])
        /\ ~is_whitespace(heading_text[Len(heading_text)])

\* C9, amended: the heading text is the rest of the line after the '#' run
\* and the whitespace that follows it, up to the end of the line: it
\* starts with a whitespace char only when it is that single char (the
\* line holds nothing but whitespace after the '#' run), and whitespace at
\* the end of the line stays in it.
C9_TextIsRestOfLine ==
    HeadingSeen =>
        LET line == InputLines[LastHeading]
            gap == Len(line) - Len(hashes) - Len(heading_text)
        IN  /\ heading_text # <<>>
            /\ gap >= 1
            /\ line = hashes \o SubSeq(line, Len(hashes) + 1, Len(hashes) + gap)
                             \o heading_text
            /\ \A i \in (Len(hashes) + 1)..(Len(hashes) + gap) :
                   is_whitespace(line[i])
            /\ is_whitespace(heading_text[1]) => Len(heading_text) = 1

\* a heading whose text ends in whitespace
C9_Witness ==
    /\ HeadingSeen
    /\ Len(heading_text) >= 2
    /\ is_whitespace(heading_text[Len(heading_text)])
    /\ ~is_whitespace(heading_text[1])

-----------------------------------------------------------------------------
\* C6: applied to its own output, the transform finds every linkified
\* heading line again as a heading of the same level, whose text is the
\* first text with the first suffix, and appends a second suffix made from
\* that text; the second output differs from the first.
C6_SecondRunAppendsSuffix ==
    (Returned /\ \E i \in 1..Len(InputLines) : Matched(InputLines[i])) =>
        LET again == lines(modified_content)
        IN  /\ \A i \in 1..Len(InputLines) :
                   LET c1 == captures(InputLines[i])
                   IN  c1.matched =>
                         LET c2 == captures(again[i])
                             suffix1 == ChainOpen \o generate_anchor(c1.g2)
                                            \o ChainClose
                         IN  /\ c2.matched
                             /\ c2.g1 = c1.g1
                             /\ c2.g2 = c1.g2 \o suffix1
                             /\ map_line(again[i]) =
                                    again[i] \o ChainOpen
                                        \o generate_anchor(c2.g2)
                                        \o ChainClose
            /\ process_markdown_headings(modified_content) # modified_content

-----------------------------------------------------------------------------
\* C8: main reads, transforms and writes in that order, each at most once:
\* a failed read ends the run with the error and leaves the output file as
\* it was, a failed write ends the run with the error, and the run ends
\* with success only when the output file holds the transformed input.
C8_ReadTransformWriteOnce ==
    /\ [](/\ nReads <= 1
          /\ nWrites <= 1
          /\ nWrites = 1 =>
               /\ nReads = 1
               /\ content = inputFile
               /\ modified_content = process_markdown_headings(content)
          /\ result = "Ok" =>
               /\ pc = "exit"
               /\ nReads = 1
               /\ nWrites = 1
               /\ outputFile = File(process_markdown_headings(inputFile))
          /\ result # "running" => pc = "exit")
    /\ [][/\ nWrites' = nWrites => outputFile' = outputFile
          /\ (pc = "read" /\ pc' = "exit") =>
               (result' = "Err" /\ outputFile' = outputFile /\ nWrites' = 0)
          /\ (pc = "write" /\ pc' = "exit") => result' = "Err"
          /\ pc = "exit" => pc' = "exit"]_vars

\* the run ended with success over an existing output file, a heading
\* linkified
C8_Witness ==
    /\ pc = "exit"
    /\ result = "Ok"
    /\ outputFile = File(modified_content)
    /\ modified_content # content
    /\ nWrites = 1

====
